---- MODULE Spec2Model ----
(***************************************************************************)
(* Model of the outliner tree engine, packages/ui/src/tree.rs, and of the  *)
(* event handlers of its front-end, packages/ui/src/outliner.rs.           *)
(*                                                                         *)
(* A Tree is { nodes: Vec<Node>, root_nodes: Vec<NodeId>, next_id }.       *)
(* Vec<T> is a sequence (1-based here, 0-based in the source: the          *)
(* operators below take and return the source's 0-based indices),          *)
(* Option<T> is a sequence of length 0 (None) or 1 (Some).                 *)
(***************************************************************************)
EXTENDS Integers, Sequences, FiniteSets

VARIABLES nodes, root_nodes, next_id, returned, aborted, last,
          is_editing, edit_value, handler

(* The state of the front-end, packages/ui/src/outliner.rs. *)
ui == <<is_editing, edit_value, handler>>

vars == <<nodes, root_nodes, next_id, returned, aborted, last, ui>>

(* Bound on the length of the orders reorder_children is called with for a *)
(* parent id that names no live node.                                      *)
MaxOrderLen == 2

(* Bound on the NodeIds allocated by the runs that make those calls. *)
MaxUnknownNodes == 2

(* Bound on the sample data the front-end starts with: the first           *)
(* SampleNodes of the ten add_node calls of outliner.rs:12-23.             *)
SampleNodes == 2

(* Bound on the number of NodeIds one run of the front-end allocates,      *)
(* the sample data included (guards the Enter key).                        *)
MaxUiNodes == 3

(* Bound on the number of NodeIds one run allocates (guards add_node). *)
MaxNodes == 4

(* The same bound for the runs that also edit contents and flags. *)
MaxEditNodes == 3

(* The same bound for the runs that call with arbitrary arguments. *)
MaxAnyNodes == 3

(* The NodeIds the operations are called with: every id the run can        *)
(* allocate, so an id is live, deleted or not yet returned.               *)
Ids == 0 .. (MaxNodes - 1)

(* The content strings update_content is called with. *)
Contents == {"", "x"}

(* The content a block is created with: the front-end creates blocks       *)
(* empty (outliner.rs:120,123) and fills them by update_content.           *)
NewContents == {""}

(* The ids update_content and toggle_expanded are called with: two ids, so *)
(* that each is live, deleted or not yet returned at some call and the    *)
(* two hold different contents and flags.                                  *)
EditIds == {0, 1}

(* The blocks the user edits the text of: the first block of the sample.   *)
EditBlocks == {0}

None == <<>>

Some(x) == <<x>>

----------------------------------------------------------------------------
(* Vec helpers, as std implements them. *)

(* Mutant of retain: the kept elements come out in reverse order. *)
retain_reversed(s, x) ==
  LET kept == SelectSeq(s, LAMBDA e : e # x)
  IN [i \in 1 .. Len(kept) |-> kept[Len(kept) + 1 - i]]

(* Vec::retain(|&e| e != x) *)
retain(s, x) == SelectSeq(s, LAMBDA e : e # x)

(* Mutant of push: the element goes to the front. *)
push_front(s, x) == <<x>> \o s

(* Vec::push *)
push(s, x) == Append(s, x)

(* Iterator::position: Some(0-based index of the first match) or None *)
position(s, x) ==
  IF \E i \in 1 .. Len(s) : s[i] = x
  THEN Some((CHOOSE i \in 1 .. Len(s) : s[i] = x /\ \A j \in 1 .. (i - 1) : s[j] # x) - 1)
  ELSE None

(* Mutant of insert: the position is ignored, the element appended. *)
insert_at_end(s, pos, x) == Append(s, x)

(* Vec::insert(pos, x), pos 0-based and pos <= len *)
insert(s, pos, x) == SubSeq(s, 1, pos) \o <<x>> \o SubSeq(s, pos + 1, Len(s))

(* usize::min *)
min(a, b) == IF a <= b THEN a ELSE b

(* The elements of a sequence. *)
Range(s) == {s[i] : i \in 1 .. Len(s)}

----------------------------------------------------------------------------
(* Node::new *)
NewNode(id, content) ==
  [id |-> id, content |-> content, parent |-> None, children |-> <<>>,
   is_expanded |-> TRUE]

(* Tree::new *)
NewTree == [nodes |-> <<>>, root_nodes |-> <<>>, next_id |-> 0]

(* 1-based index in ns of the first node whose id is id, 0 when none:      *)
(* the search of get_node and get_node_mut.                                *)
find(ns, id) ==
  LET hits == {i \in 1 .. Len(ns) : ns[i].id = id}
  IN IF hits = {} THEN 0 ELSE CHOOSE i \in hits : \A j \in hits : i <= j

(* Tree::get_node: Option<&Node> *)
get_node(t, id) ==
  LET i == find(t.nodes, id) IN IF i = 0 THEN None ELSE Some(t.nodes[i])

(* Mutant of retain_child: the id stays in the list. *)
retain_child_keep(ns, id, x) == ns

(* if let Some(n) = self.get_node_mut(id) { n.children.retain(|&c| c != x) } *)
retain_child(ns, id, x) ==
  LET i == find(ns, id) IN IF i = 0 THEN ns ELSE [ns EXCEPT ![i].children = retain(@, x)]

(* Mutant of push_child: the id goes to the front of the list. *)
push_child_front(ns, id, x) ==
  LET i == find(ns, id) IN IF i = 0 THEN ns ELSE [ns EXCEPT ![i].children = <<x>> \o @]

(* if let Some(n) = self.get_node_mut(id) { n.children.push(x) } *)
push_child(ns, id, x) ==
  LET i == find(ns, id) IN IF i = 0 THEN ns ELSE [ns EXCEPT ![i].children = push(@, x)]

(* Mutant of set_parent: the parent field is never written. *)
set_parent_stale(ns, id, p) == ns

(* if let Some(n) = self.get_node_mut(id) { n.parent = p } *)
set_parent(ns, id, p) ==
  LET i == find(ns, id) IN IF i = 0 THEN ns ELSE [ns EXCEPT ![i].parent = p]

(* Mutant of add_node: the new id is the number of live nodes. *)
add_node_len_id(t, content, parent) ==
  LET id == Len(t.nodes)
      node == [NewNode(id, content) EXCEPT !.parent = parent]
      ns == IF parent # None THEN push_child(t.nodes, parent[1], id) ELSE t.nodes
      rs == IF parent # None THEN t.root_nodes ELSE push(t.root_nodes, id)
  IN [tree |-> [nodes |-> push(ns, node), root_nodes |-> rs, next_id |-> t.next_id + 1],
      id |-> id]

(* Mutant of add_node: a node whose parent is not found becomes a root. *)
add_node_unknown_to_root(t, content, parent) ==
  LET id == t.next_id
      node == [NewNode(id, content) EXCEPT !.parent = parent]
      found == parent # None /\ find(t.nodes, parent[1]) # 0
      ns == IF found THEN push_child(t.nodes, parent[1], id) ELSE t.nodes
      rs == IF found THEN t.root_nodes ELSE push(t.root_nodes, id)
  IN [tree |-> [nodes |-> push(ns, node), root_nodes |-> rs, next_id |-> t.next_id + 1],
      id |-> id]

(* Tree::add_node: the tree it leaves and the id it returns *)
add_node(t, content, parent) ==
  LET id == t.next_id
      node == [NewNode(id, content) EXCEPT !.parent = parent]
      ns == IF parent # None THEN push_child(t.nodes, parent[1], id) ELSE t.nodes
      rs == IF parent # None THEN t.root_nodes ELSE push(t.root_nodes, id)
  IN [tree |-> [nodes |-> push(ns, node), root_nodes |-> rs, next_id |-> t.next_id + 1],
      id |-> id]

(* Mutant of toggle_expanded: the node is collapsed, not flipped. *)
toggle_expanded_collapse(t, id) ==
  LET i == find(t.nodes, id)
  IN IF i = 0 THEN t ELSE [t EXCEPT !.nodes[i].is_expanded = FALSE]

(* Tree::toggle_expanded *)
toggle_expanded(t, id) ==
  LET i == find(t.nodes, id)
  IN IF i = 0 THEN t ELSE [t EXCEPT !.nodes[i].is_expanded = ~@]

(* Mutant of update_content: the record is replaced by a new one. *)
update_content_new_node(t, id, content) ==
  LET i == find(t.nodes, id)
  IN IF i = 0 THEN t ELSE [t EXCEPT !.nodes[i] = NewNode(id, content)]

(* Tree::update_content *)
update_content(t, id, content) ==
  LET i == find(t.nodes, id)
  IN IF i = 0 THEN t ELSE [t EXCEPT !.nodes[i].content = content]

----------------------------------------------------------------------------
(* Tree::delete_node.  The recursion runs on the call stack.  frames holds  *)
(* the calls that are on the stack: the id and the tree of each.  A call   *)
(* with the id and the tree of a call already on the stack repeats it, so  *)
(* the recursion never ends and overflows the stack, which aborts the      *)
(* process; every other recursion ends, since the calls in between only    *)
(* shrink the tree.                                                        *)
RECURSIVE delete_node(_, _, _)

RECURSIVE delete_children(_, _, _)

(* Mutant of delete_children: the delete does not cascade. *)
delete_children_skip(t, children, frames) == [tree |-> t, overflow |-> FALSE]

(* Lines 100-103: for child_id in children { self.delete_node(child_id) } *)
delete_children(t, children, frames) ==
  IF children = <<>> THEN [tree |-> t, overflow |-> FALSE]
  ELSE LET r == delete_node(t, Head(children), frames)
       IN IF r.overflow THEN r ELSE delete_children(r.tree, Tail(children), frames)

(* Mutant of delete_node: the children are deleted before the node leaves  *)
(* its parent's list.                                                      *)
delete_node_children_first(t, id, frames) ==
  IF <<id, t>> \in frames THEN [tree |-> t, overflow |-> TRUE]
  ELSE IF get_node(t, id) = None THEN [tree |-> t, overflow |-> FALSE]
  ELSE LET node == get_node(t, id)[1]
           r == delete_children(t, node.children, frames \cup {<<id, t>>})
           t1 == IF node.parent # None
                 THEN [r.tree EXCEPT !.nodes = retain_child(@, node.parent[1], id)]
                 ELSE [r.tree EXCEPT !.root_nodes = retain(@, id)]
       IN IF r.overflow THEN r
          ELSE [tree |-> [t1 EXCEPT !.nodes = SelectSeq(@, LAMBDA n : n.id # id)],
                overflow |-> FALSE]

(* Tree::delete_node *)
delete_node(t, id, frames) ==
  IF <<id, t>> \in frames THEN [tree |-> t, overflow |-> TRUE]
  ELSE IF get_node(t, id) = None THEN [tree |-> t, overflow |-> FALSE]
  ELSE LET node == get_node(t, id)[1]
           t1 == IF node.parent # None
                 THEN [t EXCEPT !.nodes = retain_child(@, node.parent[1], id)]
                 ELSE [t EXCEPT !.root_nodes = retain(@, id)]
           r == delete_children(t1, node.children, frames \cup {<<id, t>>})
       IN IF r.overflow THEN r
          ELSE [tree |-> [r.tree EXCEPT !.nodes = SelectSeq(@, LAMBDA n : n.id # id)],
                overflow |-> FALSE]

(* Mutant of add_sibling: the new node goes right after the reference. *)
add_sibling_after(t, sibling_id, content) ==
  LET n == get_node(t, sibling_id)
      parent == IF n = None THEN None ELSE n[1].parent
      id == t.next_id
      node == [NewNode(id, content) EXCEPT !.parent = parent]
      after(s) == IF position(s, sibling_id) = None THEN push(s, id)
                  ELSE insert(s, position(s, sibling_id)[1] + 1, id)
      i == IF parent = None THEN 0 ELSE find(t.nodes, parent[1])
      ns == IF i = 0 THEN t.nodes ELSE [t.nodes EXCEPT ![i].children = after(@)]
      rs == IF parent # None THEN t.root_nodes ELSE after(t.root_nodes)
  IN [tree |-> [nodes |-> push(ns, node), root_nodes |-> rs, next_id |-> t.next_id + 1],
      id |-> id]

(* Tree::add_sibling: the tree it leaves and the id it returns *)
add_sibling(t, sibling_id, content) ==
  LET n == get_node(t, sibling_id)
      parent == IF n = None THEN None ELSE n[1].parent
  IN add_node(t, content, parent)

(* Mutant of indent_node: the new parent is read at index pos, not pos - 1. *)
indent_node_off_by_one(t, id) ==
  LET n == get_node(t, id) IN
  IF n = None THEN t
  ELSE IF n[1].parent = None THEN t
  ELSE LET parent_id == n[1].parent[1]
           p == get_node(t, parent_id)
       IN IF p = None THEN t
          ELSE LET siblings == p[1].children
                   pos == position(siblings, id)
               IN IF pos = None THEN t
                  ELSE IF pos[1] > 0
                  THEN LET new_parent_id == siblings[pos[1] + 1]
                           ns1 == retain_child(t.nodes, parent_id, id)
                           ns2 == push_child(ns1, new_parent_id, id)
                           ns3 == set_parent(ns2, id, Some(new_parent_id))
                       IN [t EXCEPT !.nodes = ns3]
                  ELSE t

(* Mutant of indent_node: a root is indented under the root before it. *)
indent_node_roots(t, id) ==
  LET n == get_node(t, id) IN
  IF n = None THEN t
  ELSE LET siblings == IF n[1].parent = None THEN t.root_nodes
                       ELSE IF get_node(t, n[1].parent[1]) = None THEN <<>>
                       ELSE get_node(t, n[1].parent[1])[1].children
           pos == position(siblings, id)
       IN IF pos = None THEN t
          ELSE IF pos[1] > 0
          THEN LET new_parent_id == siblings[(pos[1] - 1) + 1]
                   t1 == IF n[1].parent = None
                         THEN [t EXCEPT !.root_nodes = retain(@, id)]
                         ELSE [t EXCEPT !.nodes = retain_child(@, n[1].parent[1], id)]
                   ns2 == push_child(t1.nodes, new_parent_id, id)
                   ns3 == set_parent(ns2, id, Some(new_parent_id))
               IN [t1 EXCEPT !.nodes = ns3]
          ELSE t

(* Tree::indent_node *)
indent_node(t, id) ==
  LET n == get_node(t, id) IN
  IF n = None THEN t
  ELSE IF n[1].parent = None THEN t
  ELSE LET parent_id == n[1].parent[1]
           p == get_node(t, parent_id)
       IN IF p = None THEN t
          ELSE LET siblings == p[1].children
                   pos == position(siblings, id)
               IN IF pos = None THEN t
                  ELSE IF pos[1] > 0
                  THEN LET new_parent_id == siblings[(pos[1] - 1) + 1]
                           ns1 == retain_child(t.nodes, parent_id, id)
                           ns2 == push_child(ns1, new_parent_id, id)
                           ns3 == set_parent(ns2, id, Some(new_parent_id))
                       IN [t EXCEPT !.nodes = ns3]
                  ELSE t

(* Mutant of outdent_node: the node always becomes a root. *)
outdent_node_to_root(t, id) ==
  LET n == get_node(t, id) IN
  IF n = None THEN t
  ELSE IF n[1].parent = None THEN t
  ELSE LET ns1 == retain_child(t.nodes, n[1].parent[1], id)
           ns2 == set_parent(ns1, id, None)
       IN [t EXCEPT !.nodes = ns2, !.root_nodes = push(@, id)]

(* Tree::outdent_node *)
outdent_node(t, id) ==
  LET n == get_node(t, id) IN
  IF n = None THEN t
  ELSE IF n[1].parent = None THEN t
  ELSE LET parent_id == n[1].parent[1]
           p == get_node(t, parent_id)
           grandparent == IF p = None THEN None ELSE p[1].parent
       IN IF grandparent # None
          THEN LET ns1 == retain_child(t.nodes, parent_id, id)
                   ns2 == push_child(ns1, grandparent[1], id)
                   ns3 == set_parent(ns2, id, Some(grandparent[1]))
               IN [t EXCEPT !.nodes = ns3]
          ELSE LET ns1 == retain_child(t.nodes, parent_id, id)
                   ns2 == set_parent(ns1, id, None)
               IN [t EXCEPT !.nodes = ns2, !.root_nodes = push(@, id)]

(* Mutant of reorder_children: an unknown parent id reorders the roots. *)
reorder_children_roots(t, parent_id, new_order) ==
  IF parent_id # None /\ find(t.nodes, parent_id[1]) # 0
  THEN [t EXCEPT !.nodes[find(t.nodes, parent_id[1])].children = new_order]
  ELSE [t EXCEPT !.root_nodes = new_order]

(* Tree::reorder_children *)
reorder_children(t, parent_id, new_order) ==
  IF parent_id # None
  THEN LET i == find(t.nodes, parent_id[1])
       IN IF i = 0 THEN t ELSE [t EXCEPT !.nodes[i].children = new_order]
  ELSE [t EXCEPT !.root_nodes = new_order]

(* Mutant of move_node: a move of a node under itself is refused. *)
move_node_not_under_itself(t, node_id, new_parent_id, pos) ==
  LET n == get_node(t, node_id) IN
  IF n = None \/ new_parent_id = Some(node_id) THEN t
  ELSE LET t1 == IF n[1].parent # None
                 THEN [t EXCEPT !.nodes = retain_child(@, n[1].parent[1], node_id)]
                 ELSE [t EXCEPT !.root_nodes = retain(@, node_id)]
           t2 == [t1 EXCEPT !.nodes = set_parent(@, node_id, new_parent_id)]
       IN IF new_parent_id # None
          THEN LET i == find(t2.nodes, new_parent_id[1])
               IN IF i = 0 THEN t2
                  ELSE LET at == min(pos, Len(t2.nodes[i].children))
                       IN [t2 EXCEPT !.nodes[i].children = insert(@, at, node_id)]
          ELSE LET at == min(pos, Len(t2.root_nodes))
               IN [t2 EXCEPT !.root_nodes = insert(@, at, node_id)]

(* Tree::move_node *)
move_node(t, node_id, new_parent_id, pos) ==
  LET n == get_node(t, node_id) IN
  IF n = None THEN t
  ELSE LET t1 == IF n[1].parent # None
                 THEN [t EXCEPT !.nodes = retain_child(@, n[1].parent[1], node_id)]
                 ELSE [t EXCEPT !.root_nodes = retain(@, node_id)]
           t2 == [t1 EXCEPT !.nodes = set_parent(@, node_id, new_parent_id)]
       IN IF new_parent_id # None
          THEN LET i == find(t2.nodes, new_parent_id[1])
               IN IF i = 0 THEN t2
                  ELSE LET at == min(pos, Len(t2.nodes[i].children))
                       IN [t2 EXCEPT !.nodes[i].children = insert(@, at, node_id)]
          ELSE LET at == min(pos, Len(t2.root_nodes))
               IN [t2 EXCEPT !.root_nodes = insert(@, at, node_id)]

----------------------------------------------------------------------------
(* The state machine: one Tree, and one action per public operation.       *)
(* returned lists the ids add_node has returned, in order.  aborted        *)
(* holds once a call has overflowed the stack.  last is the call under     *)
(* observation: a run observes at most one call, its final one, and last   *)
(* then holds its name, its arguments, the id it returned and the tree it  *)
(* was made on; until then last.op is "new".  Every call of every run is   *)
(* the observed call of some run.                                          *)

Tree == [nodes |-> nodes, root_nodes |-> root_nodes, next_id |-> next_id]

SetTree(t) ==
  /\ nodes' = t.nodes
  /\ root_nodes' = t.root_nodes
  /\ next_id' = t.next_id

Call(op, id, parent, pos, content, order, ret) ==
  [op |-> op, id |-> id, parent |-> parent, pos |-> pos, content |-> content,
   order |-> order, ret |-> ret, pre |-> Tree]

(* The calls a run makes before its observed call leave last as it is. *)
Running == ~aborted /\ last.op = "new"

Observe(call) == last' \in {last, call}

(* No handler of the front-end has run. *)
NoHandler == [name |-> "none", key |-> "", shift |-> FALSE, editing |-> FALSE, calls |-> <<>>]

Init ==
  /\ nodes = NewTree.nodes
  /\ root_nodes = NewTree.root_nodes
  /\ next_id = NewTree.next_id
  /\ returned = <<>>
  /\ aborted = FALSE
  /\ last = [op |-> "new", id |-> None, parent |-> None, pos |-> 0, content |-> "",
             order |-> <<>>, ret |-> None, pre |-> NewTree]
  /\ is_editing = {}
  /\ edit_value = [id \in EditBlocks |-> ""]
  /\ handler = NoHandler

AddNode(content, parent) ==
  /\ Running
  /\ next_id < MaxNodes
  /\ LET r == add_node(Tree, content, parent)
     IN /\ SetTree(r.tree)
        /\ returned' = Append(returned, r.id)
        /\ Observe(Call("add_node", None, parent, 0, content, <<>>, Some(r.id)))
  /\ UNCHANGED aborted
  /\ UNCHANGED ui

AddSibling(sibling_id, content) ==
  /\ Running
  /\ next_id < MaxNodes
  /\ LET r == add_sibling(Tree, sibling_id, content)
     IN /\ SetTree(r.tree)
        /\ returned' = Append(returned, r.id)
        /\ Observe(Call("add_sibling", Some(sibling_id), None, 0, content, <<>>, Some(r.id)))
  /\ UNCHANGED aborted
  /\ UNCHANGED ui

ToggleExpanded(id) ==
  /\ Running
  /\ SetTree(toggle_expanded(Tree, id))
  /\ Observe(Call("toggle_expanded", Some(id), None, 0, "", <<>>, None))
  /\ UNCHANGED <<returned, aborted>>
  /\ UNCHANGED ui

UpdateContent(id, content) ==
  /\ Running
  /\ SetTree(update_content(Tree, id, content))
  /\ Observe(Call("update_content", Some(id), None, 0, content, <<>>, None))
  /\ UNCHANGED <<returned, aborted>>
  /\ UNCHANGED ui

DeleteNode(id) ==
  /\ Running
  /\ LET r == delete_node(Tree, id, {})
     IN /\ aborted' = r.overflow
        /\ SetTree(IF r.overflow THEN Tree ELSE r.tree)
  /\ Observe(Call("delete_node", Some(id), None, 0, "", <<>>, None))
  /\ UNCHANGED returned
  /\ UNCHANGED ui

IndentNode(id) ==
  /\ Running
  /\ SetTree(indent_node(Tree, id))
  /\ Observe(Call("indent_node", Some(id), None, 0, "", <<>>, None))
  /\ UNCHANGED <<returned, aborted>>
  /\ UNCHANGED ui

OutdentNode(id) ==
  /\ Running
  /\ SetTree(outdent_node(Tree, id))
  /\ Observe(Call("outdent_node", Some(id), None, 0, "", <<>>, None))
  /\ UNCHANGED <<returned, aborted>>
  /\ UNCHANGED ui

ReorderChildren(parent_id, new_order) ==
  /\ Running
  /\ SetTree(reorder_children(Tree, parent_id, new_order))
  /\ Observe(Call("reorder_children", None, parent_id, 0, "", new_order, None))
  /\ UNCHANGED <<returned, aborted>>
  /\ UNCHANGED ui

MoveNode(node_id, new_parent_id, pos) ==
  /\ Running
  /\ SetTree(move_node(Tree, node_id, new_parent_id, pos))
  /\ Observe(Call("move_node", Some(node_id), new_parent_id, pos, "", <<>>, None))
  /\ UNCHANGED <<returned, aborted>>
  /\ UNCHANGED ui

(* outdent_node(id) called right after the observed indent_node(id): the   *)
(* pair is then the observed one, last.pre the tree before the indent.     *)
OutdentAfterIndent(id) ==
  /\ ~aborted
  /\ last.op = "indent_node"
  /\ last.id = Some(id)
  /\ SetTree(outdent_node(Tree, id))
  /\ last' = [last EXCEPT !.op = "indent_node;outdent_node"]
  /\ UNCHANGED <<returned, aborted>>
  /\ UNCHANGED ui

(* toggle_expanded(id) called right after the observed toggle_expanded(id): *)
(* the pair is then the observed one, last.pre the tree before the first.  *)
ToggleAfterToggle(id) ==
  /\ ~aborted
  /\ last.op = "toggle_expanded"
  /\ last.id = Some(id)
  /\ SetTree(toggle_expanded(Tree, id))
  /\ last' = [last EXCEPT !.op = "toggle_expanded;toggle_expanded"]
  /\ UNCHANGED <<returned, aborted>>
  /\ UNCHANGED ui

----------------------------------------------------------------------------
(* The arguments of the calls. *)

(* The ids of the live nodes of t. *)
Live(t) == {t.nodes[i].id : i \in 1 .. Len(t.nodes)}

(* Every Option<NodeId> over Ids. *)
OptIds == {None} \cup {Some(i) : i \in Ids}

(* The list reorder_children(parent_id, _) replaces; empty if there is none. *)
CurrentOrder(t, parent_id) ==
  IF parent_id = None THEN t.root_nodes
  ELSE IF get_node(t, parent_id[1]) = None THEN <<>>
  ELSE get_node(t, parent_id[1])[1].children

(* The insert positions move_node(_, parent_id, _) is called with: every   *)
(* index of the target list, its length, and one position out of range.    *)
Positions(t, parent_id) == 0 .. (Len(CurrentOrder(t, parent_id)) + 1)

RECURSIVE Rearrangements(_)

(* The rearrangements of s: the sequences that hold the elements of s,     *)
(* each as often as s does, in any order.                                  *)
Rearrangements(s) ==
  IF s = <<>> THEN {<<>>}
  ELSE UNION {{<<s[i]>> \o q :
                 q \in Rearrangements(SubSeq(s, 1, i - 1) \o SubSeq(s, i + 1, Len(s)))} :
               i \in 1 .. Len(s)}

RECURSIVE Descendants(_, _, _)

(* The ids reached from id by following children lists, at most k deep. *)
Descendants(t, id, k) ==
  IF k = 0 \/ get_node(t, id) = None THEN {}
  ELSE LET ch == Range(get_node(t, id)[1].children)
       IN ch \cup UNION {Descendants(t, c, k - 1) : c \in ch}

(* The subtree of id: id and its descendants. *)
Subtree(t, id) == {id} \cup Descendants(t, id, Len(t.nodes))

(* A parent the spec calls valid for create: absent or live. *)
ValidParent(t, parent) ==
  IF parent = None THEN TRUE ELSE parent[1] \in Live(t)

(* A new parent the spec calls valid for move: absent, or live and outside *)
(* the moved node's subtree.                                               *)
ValidMove(t, node_id, new_parent_id) ==
  IF new_parent_id = None THEN TRUE
  ELSE /\ new_parent_id[1] \in Live(t)
       /\ new_parent_id[1] \notin Subtree(t, node_id)

(* The valid structural operations: any id for the node an operation       *)
(* names, a parent absent or live, a move that stays outside the moved     *)
(* subtree, a reorder by a permutation.                                    *)
Next ==
  \/ \E c \in NewContents, p \in OptIds : Running /\ ValidParent(Tree, p) /\ AddNode(c, p)
  \/ \E id \in Ids, c \in NewContents : AddSibling(id, c)
  \/ \E id \in Ids : DeleteNode(id)
  \/ \E id \in Ids : IndentNode(id)
  \/ \E id \in Ids : OutdentNode(id)
  \/ \E p \in OptIds :
       Running /\ \E o \in Rearrangements(CurrentOrder(Tree, p)) : ReorderChildren(p, o)
  \/ \E id \in Ids, p \in OptIds :
       Running /\ ValidMove(Tree, id, p) /\ \E pos \in Positions(Tree, p) : MoveNode(id, p, pos)

Spec == Init /\ [][Next]_vars

(* The valid operations, update_content and toggle_expanded among them. *)
NextEdit ==
  \/ \E c \in NewContents, p \in OptIds :
       Running /\ next_id < MaxEditNodes /\ ValidParent(Tree, p) /\ AddNode(c, p)
  \/ \E id \in Ids, c \in NewContents : next_id < MaxEditNodes /\ AddSibling(id, c)
  \/ \E id \in EditIds : ToggleExpanded(id)
  \/ \E id \in EditIds, c \in Contents : UpdateContent(id, c)
  \/ \E id \in Ids : DeleteNode(id)
  \/ \E id \in Ids : IndentNode(id)
  \/ \E id \in Ids : OutdentNode(id)
  \/ \E p \in OptIds :
       Running /\ \E o \in Rearrangements(CurrentOrder(Tree, p)) : ReorderChildren(p, o)
  \/ \E id \in Ids, p \in OptIds :
       Running /\ ValidMove(Tree, id, p) /\ \E pos \in Positions(Tree, p) : MoveNode(id, p, pos)

SpecEdit == Init /\ [][NextEdit]_vars

(* The operations with arbitrary arguments: a parent or new parent that    *)
(* names no live node, a move under the moved node or its descendant.      *)
NextAny ==
  \/ \E c \in NewContents, p \in OptIds : next_id < MaxAnyNodes /\ AddNode(c, p)
  \/ \E id \in Ids, c \in NewContents : next_id < MaxAnyNodes /\ AddSibling(id, c)
  \/ \E id \in Ids : DeleteNode(id)
  \/ \E id \in Ids : IndentNode(id)
  \/ \E id \in Ids : OutdentNode(id)
  \/ \E p \in OptIds :
       Running /\ \E o \in Rearrangements(CurrentOrder(Tree, p)) : ReorderChildren(p, o)
  \/ \E id \in Ids, p \in OptIds :
       Running /\ \E pos \in Positions(Tree, p) : MoveNode(id, p, pos)

SpecAny == Init /\ [][NextAny]_vars

(* The valid structural operations, and outdent_node(id) right after an    *)
(* indent_node(id).                                                        *)
NextRoundTrip ==
  \/ Next
  \/ \E id \in Ids : OutdentAfterIndent(id)

SpecRoundTrip == Init /\ [][NextRoundTrip]_vars

(* Every Vec<NodeId> over Ids of at most MaxOrderLen elements. *)
Orders == UNION {[1 .. k -> Ids] : k \in 0 .. MaxOrderLen}

(* The valid operations with update_content and toggle_expanded, and the   *)
(* calls addressed to an id that names no live node: a move of such an id  *)
(* to any parent, a reorder of such a parent's children to any order.      *)
NextUnknown ==
  \/ \E c \in NewContents, p \in OptIds :
       Running /\ next_id < MaxUnknownNodes /\ ValidParent(Tree, p) /\ AddNode(c, p)
  \/ \E id \in Ids, c \in NewContents : next_id < MaxUnknownNodes /\ AddSibling(id, c)
  \/ \E id \in EditIds : ToggleExpanded(id)
  \/ \E id \in EditIds, c \in Contents : UpdateContent(id, c)
  \/ \E id \in Ids : DeleteNode(id)
  \/ \E id \in Ids : IndentNode(id)
  \/ \E id \in Ids : OutdentNode(id)
  \/ \E p \in OptIds :
       Running /\ \E o \in Rearrangements(CurrentOrder(Tree, p)) : ReorderChildren(p, o)
  \/ \E id \in Ids, p \in OptIds :
       Running /\ ValidMove(Tree, id, p) /\ \E pos \in Positions(Tree, p) : MoveNode(id, p, pos)
  \/ \E id \in Ids :
       Running /\ get_node(Tree, id) = None
               /\ \E p \in OptIds : \E pos \in Positions(Tree, p) : MoveNode(id, p, pos)
  \/ \E p \in Ids :
       Running /\ get_node(Tree, p) = None /\ \E o \in Orders : ReorderChildren(Some(p), o)

SpecUnknown == Init /\ [][NextUnknown]_vars

(* The valid operations with update_content and toggle_expanded, and      *)
(* toggle_expanded(id) right after a toggle_expanded(id).                  *)
NextToggleTwice ==
  \/ NextEdit
  \/ \E id \in EditIds : ToggleAfterToggle(id)

SpecToggleTwice == Init /\ [][NextToggleTwice]_vars

----------------------------------------------------------------------------
(* The front-end, packages/ui/src/outliner.rs.  tree is a Signal<Tree>;    *)
(* each OutlinerNode component holds the signals is_editing and            *)
(* edit_value: is_editing is the set of node ids whose component has       *)
(* is_editing() true, edit_value maps a node id to its component's text.   *)
(* The signals are kept for the components of EditBlocks, the blocks the   *)
(* user clicks into; keys and the toggle button reach every block.         *)
(* handler is the last handler run: its name, the key and Shift of a       *)
(* keydown, is_editing() when the run began, and the names of the calls    *)
(* it made through tree.write(), in order.                                 *)

(* The sample data of Outliner, outliner.rs:12-23: content and parent of   *)
(* each add_node call (the ids returned are 0, 1, 2, ... in this order).   *)
(* The third content ends with a crab emoji in the source, left out here.  *)
SampleData ==
  << [content |-> "# Welcome to the Outliner", parent |-> None],
     [content |-> "This is a **LogSeq-like** outliner interface", parent |-> Some(0)],
     [content |-> "Built with *Dioxus* and Rust", parent |-> Some(1)],
     [content |-> "## Math Support", parent |-> None],
     [content |-> "Inline math: $E = mc^2$", parent |-> Some(3)],
     [content |-> "Display math: $$\\int_0^\\infty e^{-x^2} dx = \\frac{\\sqrt{\\pi}}{2}$$",
      parent |-> Some(3)],
     [content |-> "## Keyboard Shortcuts", parent |-> None],
     [content |-> "**Enter**: Create new block", parent |-> Some(6)],
     [content |-> "**Tab**: Indent block", parent |-> Some(6)],
     [content |-> "**Shift+Tab**: Outdent block", parent |-> Some(6)] >>

RECURSIVE SampleTree(_)

(* The tree after the first k add_node calls of the sample data. *)
SampleTree(k) ==
  IF k = 0 THEN NewTree
  ELSE add_node(SampleTree(k - 1), SampleData[k].content, SampleData[k].parent).tree

(* What one handler run works on: the tree behind the signal, the ids      *)
(* returned so far, the component signals, and the calls made so far.      *)
HandlerStart ==
  [tree |-> Tree, returned |-> returned, is_editing |-> is_editing,
   edit_value |-> edit_value, calls |-> <<>>]

(* tree.write().update_content(id, content) *)
write_update_content(s, id, content) ==
  [s EXCEPT !.tree = update_content(@, id, content),
            !.calls = Append(@, "update_content")]

(* tree.write().add_sibling(id, content) *)
write_add_sibling(s, id, content) ==
  LET r == add_sibling(s.tree, id, content)
  IN [s EXCEPT !.tree = r.tree, !.returned = Append(@, r.id),
               !.calls = Append(@, "add_sibling")]

(* tree.write().indent_node(id) *)
write_indent_node(s, id) ==
  [s EXCEPT !.tree = indent_node(@, id), !.calls = Append(@, "indent_node")]

(* tree.write().outdent_node(id) *)
write_outdent_node(s, id) ==
  [s EXCEPT !.tree = outdent_node(@, id), !.calls = Append(@, "outdent_node")]

(* tree.write().toggle_expanded(id) *)
write_toggle_expanded(s, id) ==
  [s EXCEPT !.tree = toggle_expanded(@, id), !.calls = Append(@, "toggle_expanded")]

(* Mutant of handle_keydown: Enter in the edit box only saves the text. *)
handle_keydown_save_only(s, node_id, key, shift) ==
  IF key = "Enter"
  THEN IF node_id \in s.is_editing
       THEN LET s1 == write_update_content(s, node_id, s.edit_value[node_id])
            IN [s1 EXCEPT !.is_editing = @ \ {node_id}]
       ELSE write_add_sibling(s, node_id, "")
  ELSE IF key = "Tab"
  THEN IF shift THEN write_outdent_node(s, node_id) ELSE write_indent_node(s, node_id)
  ELSE IF key = "Escape" /\ node_id \in s.is_editing
  THEN [s EXCEPT !.is_editing = @ \ {node_id}]
  ELSE s

(* OutlinerNode: handle_keydown, outliner.rs:109-136 *)
handle_keydown(s, node_id, key, shift) ==
  IF key = "Enter"
  THEN IF node_id \in s.is_editing
       THEN LET s1 == write_update_content(s, node_id, s.edit_value[node_id])
                s2 == write_add_sibling(s1, node_id, "")
            IN [s2 EXCEPT !.is_editing = @ \ {node_id}]
       ELSE write_add_sibling(s, node_id, "")
  ELSE IF key = "Tab"
  THEN IF shift THEN write_outdent_node(s, node_id) ELSE write_indent_node(s, node_id)
  ELSE IF key = "Escape" /\ node_id \in s.is_editing
  THEN [s EXCEPT !.is_editing = @ \ {node_id}]
  ELSE s

(* The toggle button's onclick, outliner.rs:149-151 *)
toggle_onclick(s, node_id) == write_toggle_expanded(s, node_id)

(* The content div's onclick, outliner.rs:165-170; node is the record the  *)
(* component was rendered from.                                            *)
content_onclick(s, node_id) ==
  IF node_id \notin s.is_editing
  THEN [s EXCEPT !.edit_value[node_id] = get_node(s.tree, node_id)[1].content,
                 !.is_editing = @ \cup {node_id}]
  ELSE s

(* The textarea's oninput, outliner.rs:178-180 *)
textarea_oninput(s, node_id, value) == [s EXCEPT !.edit_value[node_id] = value]

(* The textarea's onblur, outliner.rs:182-185 *)
textarea_onblur(s, node_id) ==
  LET s1 == write_update_content(s, node_id, s.edit_value[node_id])
  IN [s1 EXCEPT !.is_editing = @ \ {node_id}]

RECURSIVE Shown(_, _, _)

(* The ids of the OutlinerNode components rendered for id, at most k       *)
(* levels deep: a node that is not found renders no handlers, children     *)
(* are rendered when the node is expanded (outliner.rs:101-103, 197-207).  *)
Shown(t, id, k) ==
  LET n == get_node(t, id) IN
  IF n = None THEN {}
  ELSE IF n[1].is_expanded /\ n[1].children # <<>> /\ k > 0
  THEN {id} \cup UNION {Shown(t, c, k - 1) : c \in Range(n[1].children)}
  ELSE {id}

(* The ids of all rendered components, outliner.rs:81-87. *)
Rendered(t) == UNION {Shown(t, r, Len(t.nodes)) : r \in Range(t.root_nodes)}

(* The keys handle_keydown tells apart, and one other key. *)
Keys == {"Enter", "Tab", "Escape", "a"}

(* One handler run: s is what the handler leaves. *)
Handled(name, key, shift, node_id, s) ==
  /\ SetTree(s.tree)
  /\ returned' = s.returned
  /\ is_editing' = s.is_editing
  /\ edit_value' = s.edit_value
  /\ handler' = [name |-> name, key |-> key, shift |-> shift,
                 editing |-> node_id \in is_editing, calls |-> s.calls]
  /\ UNCHANGED <<aborted, last>>

(* Outliner's first render: the tree holds the sample data. *)
InitUi ==
  /\ nodes = SampleTree(SampleNodes).nodes
  /\ root_nodes = SampleTree(SampleNodes).root_nodes
  /\ next_id = SampleTree(SampleNodes).next_id
  /\ returned = [i \in 1 .. SampleNodes |-> i - 1]
  /\ aborted = FALSE
  /\ last = [op |-> "new", id |-> None, parent |-> None, pos |-> 0, content |-> "",
             order |-> <<>>, ret |-> None, pre |-> NewTree]
  /\ is_editing = {}
  /\ edit_value = [id \in EditBlocks |-> ""]
  /\ handler = NoHandler

(* A key pressed in a block, or in its edit box. *)
Keydown(node_id, key, shift) ==
  /\ key = "Enter" => next_id < MaxUiNodes
  /\ Handled("keydown", key, shift, node_id,
             handle_keydown(HandlerStart, node_id, key, shift))

(* A click on the expand/collapse button of a block. *)
ToggleClick(node_id) ==
  Handled("toggle onclick", "", FALSE, node_id, toggle_onclick(HandlerStart, node_id))

(* A click on the content of a block. *)
ContentClick(node_id) ==
  Handled("content onclick", "", FALSE, node_id, content_onclick(HandlerStart, node_id))

(* Typing in the edit box, which is rendered while is_editing() holds. *)
TextareaInput(node_id, value) ==
  /\ node_id \in is_editing
  /\ Handled("textarea oninput", "", FALSE, node_id, textarea_oninput(HandlerStart, node_id, value))

(* The edit box loses the focus. *)
TextareaBlur(node_id) ==
  /\ node_id \in is_editing
  /\ Handled("textarea onblur", "", FALSE, node_id, textarea_onblur(HandlerStart, node_id))

(* The events of the front-end: each reaches the component of a rendered   *)
(* block; the user clicks into the blocks of EditBlocks.                   *)
NextUi ==
  \/ \E id \in Rendered(Tree) : \E key \in Keys, shift \in BOOLEAN : Keydown(id, key, shift)
  \/ \E id \in Rendered(Tree) : ToggleClick(id)
  \/ \E id \in Rendered(Tree) \cap EditBlocks : ContentClick(id)
  \/ \E id \in Rendered(Tree) \cap EditBlocks : \E value \in Contents : TextareaInput(id, value)
  \/ \E id \in Rendered(Tree) \cap EditBlocks : TextareaBlur(id)

SpecUi == InitUi /\ [][NextUi]_vars

----------------------------------------------------------------------------
(* Vocabulary of the properties. *)

(* How often x occurs in the sequence s. *)
Count(s, x) == Cardinality({i \in 1 .. Len(s) : s[i] = x})

(* How often id occurs in root_nodes and in all children lists of t. *)
Occurrences(t, id) ==
  LET RECURSIVE Sum(_)
      Sum(k) == IF k = 0 THEN 0 ELSE Count(t.nodes[k].children, id) + Sum(k - 1)
  IN Count(t.root_nodes, id) + Sum(Len(t.nodes))

(* Invariant 1 of the data model: every id in root_nodes, in a children    *)
(* list or in a parent field names a live node.                            *)
RefsLive(t) ==
  /\ Range(t.root_nodes) \subseteq Live(t)
  /\ \A i \in 1 .. Len(t.nodes) :
       /\ Range(t.nodes[i].children) \subseteq Live(t)
       /\ t.nodes[i].parent # None => t.nodes[i].parent[1] \in Live(t)

(* Invariants 2 and 3 of the data model: every live node is listed exactly *)
(* once, in the list its parent field names.                               *)
ListedOnce(t) ==
  \A i \in 1 .. Len(t.nodes) :
    LET n == t.nodes[i] IN
    /\ Occurrences(t, n.id) = 1
    /\ IF n.parent = None
       THEN Count(t.root_nodes, n.id) = 1
       ELSE /\ get_node(t, n.parent[1]) # None
            /\ Count(get_node(t, n.parent[1])[1].children, n.id) = 1

RECURSIVE ReachesRoot(_, _, _)

(* Following parent links from id reaches a root within k steps. *)
ReachesRoot(t, id, k) ==
  LET n == get_node(t, id) IN
  IF n = None THEN FALSE
  ELSE IF n[1].parent = None THEN TRUE
  ELSE IF k = 0 THEN FALSE
  ELSE ReachesRoot(t, n[1].parent[1], k - 1)

(* Invariant 4 of the data model: no node is its own ancestor. *)
Acyclic(t) == \A id \in Live(t) : ReachesRoot(t, id, Len(t.nodes))

(* The observed call changed the tree. *)
Changed == last.pre # Tree

----------------------------------------------------------------------------
(* C1: after every step of any sequence of valid operations (update and    *)
(* toggle included), every live node's id occurs exactly once across       *)
(* root_nodes and all children lists, and in the list its parent field     *)
(* names: its parent's children, or root_nodes when it has no parent.      *)
C1_ListedOnceWhereParentSays == ListedOnce(Tree)

(* C1's case: a move has reparented a node under a live non-root node of   *)
(* a tree whose contents and flags were edited.                            *)
C1_Witness ==
  /\ last.op = "move_node"
  /\ Changed
  /\ last.parent # None
  /\ get_node(Tree, last.parent[1]) # None
  /\ get_node(Tree, last.parent[1])[1].parent # None
  /\ \E i \in 1 .. Len(nodes) : nodes[i].content = "x" /\ ~nodes[i].is_expanded

(* C2: after every step of any sequence of valid operations, every id in   *)
(* root_nodes, in a children list or in a parent field names a live node;  *)
(* no node outlives its parent.                                            *)
C2_EveryReferenceIsLive == RefsLive(Tree)

(* C2's case: a delete has removed a node together with descendants and    *)
(* left other nodes alive.                                                 *)
C2_Witness ==
  /\ last.op = "delete_node"
  /\ Len(last.pre.nodes) >= Len(nodes) + 2
  /\ Len(nodes) >= 2

(* C6: after every step of any sequence of valid operations, following     *)
(* parent links from any live node reaches a root: no node is its own      *)
(* ancestor.                                                               *)
C6_NoNodeIsItsOwnAncestor == Acyclic(Tree)

(* C6's case: an indent, an outdent or a move has changed a tree that      *)
(* is three levels deep.                                                   *)
C6_Witness ==
  /\ last.op \in {"indent_node", "outdent_node", "move_node"}
  /\ Changed
  /\ \E id \in Live(Tree) : ~ReachesRoot(Tree, id, 1)

----------------------------------------------------------------------------
(* The observed call, for the properties of single operations. *)

(* The node the observed call names, as it was before the call. *)
PreNode == get_node(last.pre, last.id[1])[1]

(* The observed call is op and names a node that was live. *)
ObservedOn(op) ==
  /\ last.op = op
  /\ get_node(last.pre, last.id[1]) # None

(* The children of id in t; empty when id is not live. *)
ChildrenOf(t, id) ==
  LET n == get_node(t, id) IN IF n = None THEN <<>> ELSE n[1].children

(* after is before with one occurrence of x taken out. *)
LosesOne(before, after, x) ==
  \E k \in 1 .. Len(before) :
    /\ before[k] = x
    /\ after = SubSeq(before, 1, k - 1) \o SubSeq(before, k + 1, Len(before))

(* The last element of s is x. *)
EndsWith(s, x) == s # <<>> /\ s[Len(s)] = x

(* s without its last element. *)
Front(s) == SubSeq(s, 1, Len(s) - 1)

(* C3: delete(id) of a live node with N descendants removes exactly the    *)
(* N+1 records of its subtree, leaves no mention of a removed id in any    *)
(* surviving parent field or children list or in root_nodes, and leaves    *)
(* every other node unchanged, except that the deleted node's parent's     *)
(* children (or root_nodes) lose that one id.                              *)
C3_DeleteRemovesExactlyTheSubtree ==
  ObservedOn("delete_node") =>
    LET pre == last.pre
        id == last.id[1]
        gone == {id} \cup Descendants(pre, id, Len(pre.nodes))
        kept == SelectSeq(pre.nodes, LAMBDA n : n.id \notin gone)
    IN /\ ~aborted
       /\ Len(nodes) = Len(pre.nodes) - Cardinality(gone)
       /\ Live(Tree) = Live(pre) \ gone
       /\ Range(root_nodes) \cap gone = {}
       /\ \A i \in 1 .. Len(nodes) :
            /\ Range(nodes[i].children) \cap gone = {}
            /\ nodes[i].parent # None => nodes[i].parent[1] \notin gone
       /\ next_id = pre.next_id
       /\ IF PreNode.parent = None
          THEN LosesOne(pre.root_nodes, root_nodes, id)
          ELSE root_nodes = pre.root_nodes
       /\ \A i \in 1 .. Len(kept) :
            IF PreNode.parent = Some(kept[i].id)
            THEN /\ [nodes[i] EXCEPT !.children = <<>>] = [kept[i] EXCEPT !.children = <<>>]
                 /\ LosesOne(kept[i].children, nodes[i].children, id)
            ELSE nodes[i] = kept[i]

(* C3's case: a delete of a non-root node that had two descendants. *)
C3_Witness ==
  /\ ObservedOn("delete_node")
  /\ PreNode.parent # None
  /\ Cardinality(Descendants(last.pre, last.id[1], Len(last.pre.nodes))) = 2
  /\ Len(nodes) = Len(last.pre.nodes) - 3

(* The case of C7: indent of a live node that has a live parent and is     *)
(* not the first of that parent's children.                                *)
IndentApplies ==
  /\ ObservedOn("indent_node")
  /\ PreNode.parent # None
  /\ get_node(last.pre, PreNode.parent[1]) # None
  /\ position(ChildrenOf(last.pre, PreNode.parent[1]), last.id[1]) # None
  /\ position(ChildrenOf(last.pre, PreNode.parent[1]), last.id[1])[1] > 0

(* C7: indent(id) of a node at index pos > 0 of its parent P's children    *)
(* makes the node at index pos-1, S, the new parent: id is gone from       *)
(* P.children and is the last element of S.children, the node's parent is  *)
(* Some(S), and its own children and the order of every other node's       *)
(* children are unchanged.                                                 *)
C7_IndentUnderPreviousSibling ==
  IndentApplies =>
    LET pre == last.pre
        id == last.id[1]
        P == PreNode.parent[1]
        pos == position(ChildrenOf(pre, P), id)[1]
        S == ChildrenOf(pre, P)[pos]
    IN /\ Count(ChildrenOf(Tree, P), id) = 0
       /\ EndsWith(ChildrenOf(Tree, S), id)
       /\ get_node(Tree, id) # None
       /\ get_node(Tree, id)[1].parent = Some(S)
       /\ ChildrenOf(Tree, id) = ChildrenOf(pre, id)
       /\ LosesOne(ChildrenOf(pre, P), ChildrenOf(Tree, P), id)
       /\ Front(ChildrenOf(Tree, S)) = ChildrenOf(pre, S)
       /\ Live(Tree) = Live(pre)
       /\ \A m \in Live(pre) \ {P, S} : ChildrenOf(Tree, m) = ChildrenOf(pre, m)

(* C7's case: an indent under a previous sibling that had a child. *)
C7_Witness ==
  /\ IndentApplies
  /\ Changed
  /\ Len(ChildrenOf(Tree, get_node(Tree, last.id[1])[1].parent[1])) >= 2

(* The case of C9: outdent of a live node that has a live parent. *)
OutdentApplies ==
  /\ ObservedOn("outdent_node")
  /\ PreNode.parent # None
  /\ get_node(last.pre, PreNode.parent[1]) # None

(* C9: outdent(id) of a node with live parent P moves it one level up: to  *)
(* the end of G.children with parent Some(G) when P has a parent G, to the *)
(* end of root_nodes with parent None when P is a root; id is gone from    *)
(* P.children, the node keeps its children, and the order of all other     *)
(* list elements is unchanged.                                             *)
C9_OutdentOneLevelUp ==
  OutdentApplies =>
    LET pre == last.pre
        id == last.id[1]
        P == PreNode.parent[1]
        G == get_node(pre, P)[1].parent
    IN /\ Count(ChildrenOf(Tree, P), id) = 0
       /\ LosesOne(ChildrenOf(pre, P), ChildrenOf(Tree, P), id)
       /\ get_node(Tree, id) # None
       /\ get_node(Tree, id)[1].parent = G
       /\ ChildrenOf(Tree, id) = ChildrenOf(pre, id)
       /\ Live(Tree) = Live(pre)
       /\ IF G # None
          THEN /\ EndsWith(ChildrenOf(Tree, G[1]), id)
               /\ Front(ChildrenOf(Tree, G[1])) = ChildrenOf(pre, G[1])
               /\ root_nodes = pre.root_nodes
               /\ \A m \in Live(pre) \ {P, G[1]} : ChildrenOf(Tree, m) = ChildrenOf(pre, m)
          ELSE /\ EndsWith(root_nodes, id)
               /\ Front(root_nodes) = pre.root_nodes
               /\ \A m \in Live(pre) \ {P} : ChildrenOf(Tree, m) = ChildrenOf(pre, m)

(* C9's case: an outdent to a grandparent that had two children, of a      *)
(* node that has a child of its own.                                       *)
C9_Witness ==
  /\ OutdentApplies
  /\ get_node(last.pre, PreNode.parent[1])[1].parent # None
  /\ Len(ChildrenOf(Tree, get_node(Tree, last.id[1])[1].parent[1])) >= 2
  /\ ChildrenOf(Tree, last.id[1]) # <<>>

(* C9's other case: an outdent to the roots, next to two earlier roots. *)
C9_WitnessRoot ==
  /\ OutdentApplies
  /\ get_node(last.pre, PreNode.parent[1])[1].parent = None
  /\ Len(root_nodes) >= 3

(* The list a parent value names in t: root_nodes, or its children. *)
ListOf(t, parent) ==
  IF parent = None THEN t.root_nodes ELSE ChildrenOf(t, parent[1])

(* s without every occurrence of x. *)
Others(s, x) == SelectSeq(s, LAMBDA e : e # x)

(* The case of C10: move of a live node to no parent or under a live node  *)
(* outside its subtree.                                                    *)
MoveApplies ==
  /\ ObservedOn("move_node")
  /\ \/ last.parent = None
     \/ /\ get_node(last.pre, last.parent[1]) # None
        /\ last.parent[1] \notin Subtree(last.pre, last.id[1])

(* C10: move(nodeId, newParentId, position) leaves nodeId's parent equal   *)
(* to newParentId and nodeId at index min(position, L) of the target list, *)
(* L being that list's length without nodeId; nodeId occurs in no other    *)
(* list, and the other elements of the old and of the target list keep     *)
(* their order.                                                            *)
C10_MoveInsertsAtClippedPosition ==
  MoveApplies =>
    LET pre == last.pre
        id == last.id[1]
        L == Len(ListOf(pre, last.parent)) - Count(ListOf(pre, last.parent), id)
        at == IF last.pos < L THEN last.pos ELSE L
        target == ListOf(Tree, last.parent)
    IN /\ get_node(Tree, id) # None
       /\ get_node(Tree, id)[1].parent = last.parent
       /\ Len(target) = L + 1
       /\ target[at + 1] = id
       /\ Occurrences(Tree, id) = 1
       /\ Others(target, id) = Others(ListOf(pre, last.parent), id)
       /\ Others(ListOf(Tree, PreNode.parent), id) = Others(ListOf(pre, PreNode.parent), id)

(* C10's case: a move inside one list of three, to a position past the     *)
(* list's length without the moved node.                                   *)
C10_Witness ==
  /\ MoveApplies
  /\ Changed
  /\ last.parent = PreNode.parent
  /\ Len(ListOf(last.pre, last.parent)) = 3
  /\ last.pos >= 3

(* C8: indent of a node that has no parent (whatever its place among the   *)
(* roots) or that is the first child of its parent, and outdent of a node  *)
(* that has no parent, leave nodes, root_nodes and next_id unchanged.      *)
C8_BoundaryCallsChangeNothing ==
  /\ ( /\ ObservedOn("indent_node")
       /\ \/ PreNode.parent = None
          \/ position(ListOf(last.pre, PreNode.parent), last.id[1]) = Some(0) )
     => Tree = last.pre
  /\ ( /\ ObservedOn("outdent_node")
       /\ PreNode.parent = None )
     => Tree = last.pre

(* C8's case: an indent of a root that has a root before it. *)
C8_Witness ==
  /\ ObservedOn("indent_node")
  /\ PreNode.parent = None
  /\ position(last.pre.root_nodes, last.id[1]) # None
  /\ position(last.pre.root_nodes, last.id[1])[1] > 0

(* C4: every id create and add-sibling return is greater than every id     *)
(* returned before, so no id is returned twice, deleted or not; no two     *)
(* live nodes share an id, and next_id is greater than every live id.      *)
C4_ReturnedIdsIncrease ==
  /\ \A i, j \in 1 .. Len(returned) : i < j => returned[i] < returned[j]
  /\ \A i, j \in 1 .. Len(nodes) : i # j => nodes[i].id # nodes[j].id
  /\ \A i \in 1 .. Len(nodes) : nodes[i].id < next_id
  /\ Live(Tree) \subseteq Range(returned)

(* C4's case: a create has returned an id after an earlier id was deleted. *)
C4_Witness ==
  /\ last.op \in {"add_node", "add_sibling"}
  /\ Len(returned) >= 3
  /\ \E i \in 1 .. Len(returned) : returned[i] \notin Live(Tree)
  /\ last.ret[1] \in Live(Tree)

(* Invariants 1 to 3 of the data model. *)
Invariants123(t) == RefsLive(t) /\ ListedOnce(t)

(* C5: no operation partially applies: whatever the arguments, a call made *)
(* on a tree that satisfies invariants 1-3 leaves a tree that satisfies    *)
(* them again, its change applied, or the tree it was made on.             *)
C5_NoPartialApplication ==
  (last.op # "new" /\ Invariants123(last.pre)) =>
    (Tree = last.pre \/ Invariants123(Tree))

----------------------------------------------------------------------------
(* The parent of id in t; None when id is not live. *)
ParentOf(t, id) ==
  LET n == get_node(t, id) IN IF n = None THEN None ELSE n[1].parent

(* C11: add-sibling(referenceId, content) adds one node with a fresh id:   *)
(* its parent is the reference's parent and it is the last element of that *)
(* parent's children (of root_nodes when the reference is a root, or names *)
(* no live node: then the parent is None), wherever the reference stands;  *)
(* no existing node's parent changes and no list element changes position. *)
C11_AddSiblingAppendsLast ==
  last.op = "add_sibling" =>
    LET pre == last.pre
        new == last.ret[1]
        parent == ParentOf(pre, last.id[1])
    IN /\ new \notin Live(pre)
       /\ \A i \in 1 .. (Len(returned) - 1) : returned[i] # new
       /\ Len(nodes) = Len(pre.nodes) + 1
       /\ nodes[Len(nodes)] = [NewNode(new, last.content) EXCEPT !.parent = parent]
       /\ SubSeq(nodes, 1, Len(pre.nodes)) =
            [i \in 1 .. Len(pre.nodes) |->
               IF Some(pre.nodes[i].id) = parent
               THEN [pre.nodes[i] EXCEPT !.children = Append(@, new)]
               ELSE pre.nodes[i]]
       /\ root_nodes = IF parent = None THEN Append(pre.root_nodes, new) ELSE pre.root_nodes
       /\ EndsWith(ListOf(Tree, parent), new)
       /\ Occurrences(Tree, new) = 1

(* C11's case: a sibling added to a non-root reference that had a later    *)
(* sibling, so that last and right-after-the-reference differ.             *)
C11_Witness ==
  /\ ObservedOn("add_sibling")
  /\ PreNode.parent # None
  /\ Len(ListOf(last.pre, PreNode.parent)) >= 2
  /\ position(ListOf(last.pre, PreNode.parent), last.id[1]) = Some(0)
  /\ EndsWith(ListOf(Tree, PreNode.parent), last.ret[1])

(* C11's other case: the reference names no live node. *)
C11_WitnessUnknownReference ==
  /\ last.op = "add_sibling"
  /\ get_node(last.pre, last.id[1]) = None
  /\ Len(last.pre.root_nodes) >= 1
  /\ EndsWith(root_nodes, last.ret[1])

(* The case of C12: indent then outdent of a live node that has a live     *)
(* parent and is not the first of that parent's children.                  *)
RoundTripApplies ==
  /\ last.op = "indent_node;outdent_node"
  /\ get_node(last.pre, last.id[1]) # None
  /\ PreNode.parent # None
  /\ get_node(last.pre, PreNode.parent[1]) # None
  /\ position(ChildrenOf(last.pre, PreNode.parent[1]), last.id[1]) # None
  /\ position(ChildrenOf(last.pre, PreNode.parent[1]), last.id[1])[1] > 0

(* C12: indent(n) then outdent(n), n a child of P but not the first, leave *)
(* n's parent equal to P and n the last element of P.children: its index   *)
(* is the original one only if n was the last child already.  P's other    *)
(* children keep their order and no other node's parent changes.           *)
C12_IndentThenOutdentAppends ==
  RoundTripApplies =>
    LET pre == last.pre
        n == last.id[1]
        P == PreNode.parent[1]
    IN /\ ParentOf(Tree, n) = Some(P)
       /\ EndsWith(ChildrenOf(Tree, P), n)
       /\ Count(ChildrenOf(Tree, P), n) = 1
       /\ Others(ChildrenOf(Tree, P), n) = Others(ChildrenOf(pre, P), n)
       /\ (position(ChildrenOf(Tree, P), n) = position(ChildrenOf(pre, P), n))
            <=> EndsWith(ChildrenOf(pre, P), n)
       /\ Live(Tree) = Live(pre)
       /\ \A m \in Live(pre) \ {n} : ParentOf(Tree, m) = ParentOf(pre, m)

(* C12's case: the round trip of a middle child: it ends behind a sibling  *)
(* it stood in front of.                                                   *)
C12_Witness ==
  /\ RoundTripApplies
  /\ Len(ChildrenOf(last.pre, PreNode.parent[1])) = 3
  /\ position(ChildrenOf(last.pre, PreNode.parent[1]), last.id[1]) = Some(1)
  /\ position(ChildrenOf(Tree, PreNode.parent[1]), last.id[1]) = Some(2)

(* The id the observed call is addressed to: the parent id for            *)
(* reorder_children, the node id for the other operations.                 *)
Addressed == IF last.op = "reorder_children" THEN last.parent ELSE last.id

(* The observed call is addressed to an id that is not the id of any node  *)
(* of the tree it was made on.                                             *)
AddressedUnknown ==
  /\ last.op \in {"update_content", "toggle_expanded", "delete_node", "indent_node",
                  "outdent_node", "move_node", "reorder_children"}
  /\ Addressed # None
  /\ Addressed[1] \notin Live(last.pre)

(* C13: update-content, toggle-expanded, delete, indent, outdent and move  *)
(* of an id that names no live node (never allocated, or deleted), and     *)
(* reorder-children of such a parent id, leave nodes, root_nodes and       *)
(* next_id as they were and do not fail; get_node of the id is None.       *)
C13_UnknownIdIsNoOp ==
  AddressedUnknown =>
    /\ Tree = last.pre
    /\ ~aborted
    /\ get_node(last.pre, Addressed[1]) = None
    /\ get_node(Tree, Addressed[1]) = None

(* C13's case: a move of an id that was returned and then deleted, to a    *)
(* live new parent.                                                        *)
C13_Witness ==
  /\ AddressedUnknown
  /\ last.op = "move_node"
  /\ Addressed[1] \in Range(returned)
  /\ last.parent # None
  /\ last.parent[1] \in Live(last.pre)

(* C13's other cases: a reorder of an unknown parent to an order of live   *)
(* ids; an update of a never allocated id.                                 *)
C13_WitnessReorder ==
  /\ AddressedUnknown
  /\ last.op = "reorder_children"
  /\ last.order # <<>>
  /\ Range(last.order) \subseteq Live(last.pre)

C13_WitnessNeverAllocated ==
  /\ AddressedUnknown
  /\ last.op = "update_content"
  /\ Addressed[1] \notin Range(returned)
  /\ last.content = "x"
  /\ nodes # <<>>

(* C14: create(content, parent) always returns a fresh id and adds the     *)
(* record; when parent is given but names no live node, the record has its *)
(* parent field set to that id, its id is in no children list and not in   *)
(* root_nodes, and root_nodes and every record that existed are unchanged. *)
C14_CreateUnderUnknownParentOrphans ==
  last.op = "add_node" =>
    LET pre == last.pre
        new == last.ret[1]
    IN /\ new \notin Live(pre)
       /\ \A i \in 1 .. (Len(returned) - 1) : returned[i] # new
       /\ get_node(Tree, new) =
            Some([NewNode(new, last.content) EXCEPT !.parent = last.parent])
       /\ (last.parent # None /\ last.parent[1] \notin Live(pre)) =>
            /\ nodes = Append(pre.nodes, [NewNode(new, last.content) EXCEPT
                                            !.parent = last.parent])
            /\ root_nodes = pre.root_nodes
            /\ Occurrences(Tree, new) = 0
            /\ next_id = pre.next_id + 1

(* C14's case: a create under an id that was deleted, in a tree that has   *)
(* a root.                                                                 *)
C14_Witness ==
  /\ last.op = "add_node"
  /\ last.parent # None
  /\ last.parent[1] \notin Live(last.pre)
  /\ last.parent[1] \in Range(returned)
  /\ last.pre.root_nodes # <<>>
  /\ Occurrences(Tree, last.ret[1]) = 0

(* Any two ids, none in skip, that are in the list before and after stand  *)
(* in the same order in both.                                              *)
OrderKept(before, after, skip) ==
  \A a, b \in (Range(before) \cap Range(after)) \ skip :
    a # b => (position(before, a)[1] < position(before, b)[1]
                <=> position(after, a)[1] < position(after, b)[1])

C15_WitnessDelete ==
  /\ ObservedOn("delete_node")
  /\ Len(ListOf(last.pre, PreNode.parent)) = 3
  /\ position(ListOf(last.pre, PreNode.parent), last.id[1]) = Some(1)
  /\ Len(ListOf(Tree, PreNode.parent)) = 2

RECURSIVE HasAncestor(_, _, _, _)

(* Following parent links from id arrives at target within k + 1 steps. *)
HasAncestor(t, id, target, k) ==
  LET p == ParentOf(t, id) IN
  IF p = None THEN FALSE
  ELSE IF p[1] = target THEN TRUE
  ELSE IF k = 0 THEN FALSE
  ELSE HasAncestor(t, p[1], target, k - 1)

(* The ids reached from root_nodes by following children lists. *)
Reachable(t) ==
  Range(t.root_nodes) \cup UNION {Descendants(t, r, Len(t.nodes)) : r \in Range(t.root_nodes)}

(* The case of C16: move of a live node under itself or under a live node  *)
(* of its own subtree.                                                     *)
MoveIntoOwnSubtree ==
  /\ ObservedOn("move_node")
  /\ last.parent # None
  /\ last.parent[1] \in Live(last.pre)
  /\ last.parent[1] \in Subtree(last.pre, last.id[1])

(* C16: move(nodeId, newParentId, position) with newParentId nodeId itself *)
(* or a live descendant of it is carried out: afterwards nodeId is its own *)
(* ancestor, neither it nor any node of its subtree is reached from        *)
(* root_nodes through children lists, and all their records are live.      *)
C16_MoveIntoOwnSubtreeMakesCycle ==
  MoveIntoOwnSubtree =>
    LET pre == last.pre
        id == last.id[1]
        subtree == Subtree(pre, id)
    IN /\ ~aborted
       /\ ParentOf(Tree, id) = last.parent
       /\ Count(ChildrenOf(Tree, last.parent[1]), id) = 1
       /\ HasAncestor(Tree, id, id, Len(nodes))
       /\ Subtree(Tree, id) = subtree
       /\ subtree \cap Reachable(Tree) = {}
       /\ subtree \subseteq Live(Tree)
       /\ Live(Tree) = Live(pre)

(* C16's case: a move of a node under its child, in a tree that keeps      *)
(* another root.                                                           *)
C16_Witness ==
  /\ MoveIntoOwnSubtree
  /\ last.parent[1] # last.id[1]
  /\ last.id[1] \in Reachable(last.pre)
  /\ root_nodes # <<>>
  /\ ~Acyclic(Tree)

(* The single operations of the tree. *)
Operations ==
  {"add_node", "add_sibling", "toggle_expanded", "update_content", "delete_node",
   "indent_node", "outdent_node", "reorder_children", "move_node"}

(* C17: create, add-sibling, delete, reorder-children, update-content and  *)
(* toggle-expanded leave the parent field of every node that is live       *)
(* before and after unchanged; an indent, outdent or move changes the      *)
(* parent field of no node but the one it names.                           *)
C17_OnlyIndentOutdentMoveChangeParent ==
  last.op \in Operations =>
    LET named == IF last.op \in {"indent_node", "outdent_node", "move_node"}
                 THEN {last.id[1]} ELSE {}
    IN \A m \in (Live(last.pre) \cap Live(Tree)) \ named :
         ParentOf(Tree, m) = ParentOf(last.pre, m)

(* C17's case: a delete of a child has left a sibling of it under their    *)
(* parent.                                                                 *)
C17_Witness ==
  /\ ObservedOn("delete_node")
  /\ PreNode.parent # None
  /\ ChildrenOf(Tree, PreNode.parent[1]) # <<>>
  /\ \A m \in Range(ChildrenOf(Tree, PreNode.parent[1])) : ParentOf(Tree, m) = PreNode.parent

(* C17's other case: an outdent has changed the parent of the node it      *)
(* names, which has a child.                                               *)
C17_WitnessOutdent ==
  /\ ObservedOn("outdent_node")
  /\ ParentOf(Tree, last.id[1]) # ParentOf(last.pre, last.id[1])
  /\ ChildrenOf(Tree, last.id[1]) # <<>>

(* C18: on every tree built from the empty one by create, add-sibling,     *)
(* indent, outdent, delete and move with any arguments (moves under the    *)
(* moved node or its descendant among them), the recursion of delete(id)   *)
(* ends, and afterwards id is not live.                                    *)
C18_DeleteTerminates ==
  /\ ~aborted
  /\ last.op = "delete_node" => last.id[1] \notin Live(Tree)

(* C18's case: a delete of a node that was its own ancestor through        *)
(* another node has removed both.                                          *)
C18_Witness ==
  /\ ObservedOn("delete_node")
  /\ ~aborted
  /\ HasAncestor(last.pre, last.id[1], last.id[1], Len(last.pre.nodes))
  /\ ParentOf(last.pre, last.id[1]) # last.id
  /\ ParentOf(last.pre, last.id[1])[1] \in Descendants(last.pre, last.id[1], Len(last.pre.nodes))
  /\ Len(nodes) <= Len(last.pre.nodes) - 2
  /\ last.id[1] \notin Live(Tree)

(* C18's other case: a delete of a node that was its own parent and child. *)
C18_WitnessOwnChild ==
  /\ ObservedOn("delete_node")
  /\ ~aborted
  /\ PreNode.parent = last.id
  /\ Count(PreNode.children, last.id[1]) = 1
  /\ last.id[1] \notin Live(Tree)

(* The last handler run is one of those C19 names: a keydown of Enter or   *)
(* Tab (with or without Shift), a click on the expand/collapse button, or  *)
(* the blur of the edit box.                                               *)
MutatingHandler ==
  \/ handler.name = "keydown" /\ handler.key \in {"Enter", "Tab"}
  \/ handler.name \in {"toggle onclick", "textarea onblur"}

(* The one call each of these handler runs makes when it makes one. *)
OneCall ==
  IF handler.name = "toggle onclick" THEN <<"toggle_expanded">>
  ELSE IF handler.name = "textarea onblur" THEN <<"update_content">>
  ELSE IF handler.key = "Enter" THEN <<"add_sibling">>
  ELSE IF handler.shift THEN <<"outdent_node">>
  ELSE <<"indent_node">>

(* C19 as stated: one handler run for Enter (the block being edited or     *)
(* not), Tab, Shift+Tab, the expand/collapse button or the blur of the     *)
(* edit box makes exactly one mutating call into the tree.                 *)
C19_EachHandlerMakesOneCall ==
  MutatingHandler => handler.calls = OneCall

(* C19, amended: each of these handler runs makes exactly one mutating     *)
(* call into the tree, except Enter in a block that is being edited, which *)
(* makes two, one after the other: update_content, then add_sibling.       *)
C19_OneCallExceptEnterWhileEditing ==
  MutatingHandler =>
    IF handler.name = "keydown" /\ handler.key = "Enter" /\ handler.editing
    THEN handler.calls = <<"update_content", "add_sibling">>
    ELSE handler.calls = OneCall

(* C19's case: Enter in the edit box of block 0 after typing: the text is  *)
(* saved and a sibling is added, by one handler run.                       *)
C19_Witness ==
  /\ handler.name = "keydown"
  /\ handler.key = "Enter"
  /\ handler.editing
  /\ Len(handler.calls) = 2
  /\ get_node(Tree, 0) # None
  /\ get_node(Tree, 0)[1].content = "x"
  /\ Len(nodes) = SampleNodes + 1
  /\ 0 \notin is_editing

(* t and u are the same tree but for the content of node id. *)
SameButContent(t, u, id) ==
  /\ t.root_nodes = u.root_nodes
  /\ t.next_id = u.next_id
  /\ Len(t.nodes) = Len(u.nodes)
  /\ \A i \in 1 .. Len(t.nodes) :
       IF u.nodes[i].id = id
       THEN [t.nodes[i] EXCEPT !.content = ""] = [u.nodes[i] EXCEPT !.content = ""]
       ELSE t.nodes[i] = u.nodes[i]

(* t and u are the same tree but for the is_expanded of node id. *)
SameButExpanded(t, u, id) ==
  /\ t.root_nodes = u.root_nodes
  /\ t.next_id = u.next_id
  /\ Len(t.nodes) = Len(u.nodes)
  /\ \A i \in 1 .. Len(t.nodes) :
       IF u.nodes[i].id = id
       THEN [t.nodes[i] EXCEPT !.is_expanded = TRUE] = [u.nodes[i] EXCEPT !.is_expanded = TRUE]
       ELSE t.nodes[i] = u.nodes[i]

(* C20: update-content of a live id changes only that node's content,      *)
(* toggle-expanded of a live id only flips that node's is_expanded, and    *)
(* two toggles give back the tree; root_nodes, next_id, the live ids,      *)
(* every parent and children list and every other node stay as they were.  *)
(* A newly created node has is_expanded = true and no children.            *)
C20_EditsKeepTheShape ==
  /\ ObservedOn("update_content") =>
       /\ SameButContent(Tree, last.pre, last.id[1])
       /\ get_node(Tree, last.id[1])[1].content = last.content
  /\ ObservedOn("toggle_expanded") =>
       /\ SameButExpanded(Tree, last.pre, last.id[1])
       /\ get_node(Tree, last.id[1])[1].is_expanded = ~PreNode.is_expanded
  /\ ObservedOn("toggle_expanded;toggle_expanded") => Tree = last.pre
  /\ last.op \in {"add_node", "add_sibling"} =>
       /\ get_node(Tree, last.ret[1]) # None
       /\ get_node(Tree, last.ret[1])[1].is_expanded
       /\ get_node(Tree, last.ret[1])[1].children = <<>>

(* C20's case: a collapsed node that has a parent and a child was toggled  *)
(* twice.                                                                  *)
C20_Witness ==
  /\ ObservedOn("toggle_expanded;toggle_expanded")
  /\ ~PreNode.is_expanded
  /\ PreNode.parent # None
  /\ PreNode.children # <<>>
  /\ Tree = last.pre

(* C20's other case: the content of a node that has a parent and a child,  *)
(* in a tree with a collapsed node, was replaced by another one.           *)
C20_WitnessUpdate ==
  /\ ObservedOn("update_content")
  /\ PreNode.content # last.content
  /\ PreNode.parent # None
  /\ PreNode.children # <<>>
  /\ \E i \in 1 .. Len(nodes) : ~nodes[i].is_expanded

====
